---- MODULE Spec2Model ----
(***************************************************************************)
(* A model of the coordinate kernel (src/src/helpers.ts) and of the        *)
(* complex multiplication / division of src/src/Complex.ts.                *)
(*                                                                         *)
(* Every function of the kernel is pure.  A behaviour of the model is one  *)
(* call: Init draws the function and its arguments, the function's action  *)
(* runs it and records what it returned or threw.                          *)
(*                                                                         *)
(* JavaScript arrays are 0-based, TLA+ sequences 1-based: the element the  *)
(* code calls a[i] is a[i + 1] here.                                       *)
(***************************************************************************)
EXTENDS Integers, Sequences, FiniteSets, TLC

VARIABLES pc, op, args, after, ret

vars == <<pc, op, args, after, ret>>

(***************************************************************************)
(* Bounds of the model.                                                    *)
(***************************************************************************)
\* most dimensions of a coordinate / size tuple
MaxDims == 3
\* largest size of one dimension
MaxSize == 3
\* an index is drawn from -IndexWraps * product .. IndexWraps * product
IndexWraps == 2
\* longest array given to isPermutation / indicesComplement
MaxLen == 3
\* largest n given to isPermutation / indicesComplement
MaxN == 5
\* most axes joined by joinCoordsFunc
MaxJoin == 3
\* largest coordinate given to the function joinCoordsFunc returns
MaxCoord == 1
\* largest |re|, |im| of a complex number
MaxC == 2

SeqsUpTo(S, n) == UNION {[1..k -> S] : k \in 0..n}

(***************************************************************************)
(* JavaScript values and results.                                          *)
(***************************************************************************)
\* a number held in an array slot
Num(v) == [kind |-> "num", num |-> v]
\* NaN, the result of undefined + 1
NaN == [kind |-> "NaN", num |-> 0]
\* undefined: a hole of an array, or the value of a void function
Undefined == [kind |-> "undefined", num |-> 0]

\* JavaScript truthiness of a slot: a number other than 0 and NaN
Truthy(e) == e.kind = "num" /\ e.num # 0

\* a normal return, and a thrown Error
Ok(v) == [status |-> "ok", value |-> v]
Throw(e) == [status |-> "throw", value |-> e]
Pending == [status |-> "pending", value |-> "none"]

\* Array.prototype.reverse on a copy
RECURSIVE Reverse(_)
Reverse(s) == IF s = <<>> THEN <<>> ELSE Reverse(Tail(s)) \o <<Head(s)>>

\* JavaScript's %: the remainder takes the sign of the dividend (b > 0)
JsRem(a, b) == IF a >= 0 THEN a % b ELSE -((-a) % b)

(***************************************************************************)
(* coordsFromIndex                                                         *)
(***************************************************************************)
\* the map callback over the reversed sizes, with the running value i
RECURSIVE mapDims(_, _)
mapDims(i, sizesRev) ==
    IF sizesRev = <<>> THEN <<>>
    ELSE LET dimSize == Head(sizesRev)
             coord == JsRem(i, dimSize)
         IN  <<coord>> \o mapDims((i - coord) \div dimSize, Tail(sizesRev))

\* mutant: the collected digits are not reversed back
coordsFromIndexNoReverse(index, sizes) == mapDims(index, Reverse(sizes))

coordsFromIndex(index, sizes) == Reverse(mapDims(index, Reverse(sizes)))

(***************************************************************************)
(* coordsToIndex                                                           *)
(***************************************************************************)
\* the forEach over coordsRev: res += factor * coord; factor *= sizesRev[dim]
RECURSIVE accumulate(_, _, _, _)
accumulate(coordsRev, sizesRev, factor, res) ==
    IF coordsRev = <<>> THEN res
    ELSE accumulate(Tail(coordsRev), Tail(sizesRev),
                    factor * Head(sizesRev), res + factor * Head(coordsRev))

\* mutant: little-endian, the tuples are walked first to last
coordsToIndexLittleEndian(coords, sizes) ==
    IF Len(coords) # Len(sizes) THEN Throw("LengthMismatch")
    ELSE Ok(accumulate(coords, sizes, 1, 0))

coordsToIndex(coords, sizes) ==
    IF Len(coords) # Len(sizes) THEN Throw("LengthMismatch")
    ELSE Ok(accumulate(Reverse(coords), Reverse(sizes), 1, 0))

(***************************************************************************)
(* checkCoordsSizesCompability                                             *)
(***************************************************************************)
\* mutant: the upper bound is tested with > instead of >=
checkCoordsSizesOffByOne(coords, sizes) ==
    IF Len(coords) # Len(sizes) THEN Throw("LengthMismatch")
    ELSE IF \E i \in 1..Len(coords) : coords[i] < 0 \/ coords[i] > sizes[i]
         THEN Throw("OutOfBounds")
         ELSE Ok(Undefined)

checkCoordsSizesCompability(coords, sizes) ==
    IF Len(coords) # Len(sizes) THEN Throw("LengthMismatch")
    ELSE IF \E i \in 1..Len(coords) : coords[i] < 0 \/ coords[i] >= sizes[i]
         THEN Throw("OutOfBounds")
         ELSE Ok(Undefined)

(***************************************************************************)
(* isPermutation                                                           *)
(***************************************************************************)
\* new Array(length).fill(0)
fillZero(length) == [i \in 1..length |-> Num(0)]

\* e + 1 for the value e of a slot: undefined + 1 and NaN + 1 are NaN
plusOne(e) == IF e.kind = "num" THEN Num(e.num + 1) ELSE NaN

\* counts[x] += 1 for an integer x.  A negative x is no array index: the
\* assignment makes a property named "-1" and leaves every slot as it was.
\* An x past the end grows the array: the slots between are holes, slot x
\* becomes undefined + 1.
increment(counts, x) ==
    IF x < 0 THEN counts
    ELSE IF x < Len(counts) THEN [counts EXCEPT ![x + 1] = plusOne(@)]
    ELSE counts \o [i \in 1..(x - Len(counts)) |-> Undefined] \o <<NaN>>

\* array.forEach((x) => (counts[x] += 1))
RECURSIVE countAll(_, _)
countAll(array, counts) ==
    IF array = <<>> THEN counts
    ELSE countAll(Tail(array), increment(counts, Head(array)))

\* _.every(counts): every slot of the array, holes included, is truthy
every(counts) == \A i \in 1..Len(counts) : Truthy(counts[i])

\* mutant: the length is not compared with n
isPermutationNoLength(array, n) == every(countAll(array, fillZero(Len(array))))

isPermutation(array, n) ==
    IF Len(array) # n THEN FALSE
    ELSE every(countAll(array, fillZero(Len(array))))

(***************************************************************************)
(* indicesComplement                                                       *)
(***************************************************************************)
\* _.range(n) for n >= 0
range(n) == [i \in 1..n |-> i - 1]

\* _.includes(indices, i)
includes(indices, i) == \E k \in 1..Len(indices) : indices[k] = i

\* _.range(n).filter((i) => !_.includes(indices, i))
complementOf(indices, n) ==
    LET keep(i) == ~includes(indices, i) IN SelectSeq(range(n), keep)

\* mutant: the complement is returned in descending order
indicesComplementDescending(indices, n) ==
    LET res == Reverse(complementOf(indices, n))
        all == indices \o res
    IN  IF ~isPermutation(all, Len(all)) THEN Throw("NotAPermutation")
        ELSE Ok(res)

\* isPermutation is called with the concatenation alone, so its n is the
\* concatenation's own length, not the n given to indicesComplement
indicesComplement(indices, n) ==
    LET res == complementOf(indices, n)
        all == indices \o res
    IN  IF ~isPermutation(all, Len(all)) THEN Throw("NotAPermutation")
        ELSE Ok(res)

(***************************************************************************)
(* joinCoordsFunc                                                          *)
(***************************************************************************)
\* new Array(length): every slot a hole
newArray(length) == [i \in 1..length |-> Undefined]

\* coord[idx] = c; an idx past the end grows the array with holes
assign(coord, idx, c) ==
    IF idx < Len(coord) THEN [coord EXCEPT ![idx + 1] = Num(c)]
    ELSE coord \o [i \in 1..(idx - Len(coord)) |-> Undefined] \o <<Num(c)>>

\* values.forEach((c, i) => { coord[indices[i]] = c }), from position i on.
\* Past the end of indices, indices[i] is undefined: the assignment makes a
\* property named "undefined" and leaves every slot as it was.
RECURSIVE place(_, _, _, _)
place(coord, values, indices, i) ==
    IF i > Len(values) THEN coord
    ELSE IF i > Len(indices) THEN place(coord, values, indices, i + 1)
    ELSE place(assign(coord, indices[i], values[i]), values, indices, i + 1)

\* mutant: the two index tuples are swapped
joinCoordsFuncSwapped(coordIndices, complementIndices, coordGroup, coordContraction) ==
    LET coord == newArray(Len(coordIndices) + Len(complementIndices))
    IN  place(place(coord, coordGroup, coordIndices, 1),
              coordContraction, complementIndices, 1)

\* joinCoordsFunc(coordIndices, complementIndices)(coordGroup, coordContraction)
joinCoordsFunc(coordIndices, complementIndices, coordGroup, coordContraction) ==
    LET coord == newArray(Len(coordIndices) + Len(complementIndices))
    IN  place(place(coord, coordGroup, complementIndices, 1),
              coordContraction, coordIndices, 1)

(***************************************************************************)
(* Complex                                                                 *)
(***************************************************************************)
\* new Complex(re, im)
Complex(re, im) == [re |-> re, im |-> im]

mul(z1, z2) == Complex(z1.re * z2.re - z1.im * z2.im, z1.re * z2.im + z1.im * z2.re)

\* mutant: k2 uses the sum z2.im + z2.re
mulGaussWrongSign(z1, z2) ==
    LET k1 == z2.re * (z1.re + z1.im)
        k2 == z1.re * (z2.im + z2.re)
        k3 == z1.im * (z2.re + z2.im)
    IN  Complex(k1 - k3, k1 + k2)

mulGauss(z1, z2) ==
    LET k1 == z2.re * (z1.re + z1.im)
        k2 == z1.re * (z2.im - z2.re)
        k3 == z1.im * (z2.re + z2.im)
    IN  Complex(k1 - k3, k1 + k2)

\* the quotient num / denom of two numbers, kept exact as a fraction
Quot(num, denom) == [num |-> num, denom |-> denom]

\* mutant: only the real part of the divisor is tested
divReOnly(z1, z2) ==
    LET denom == z2.im * z2.im + z2.re * z2.re
    IN  IF z2.re = 0 THEN Throw("DivisionByZero")
        ELSE Ok(Complex(Quot(z1.re * z2.re + z1.im * z2.im, denom),
                        Quot(z2.re * z1.im - z1.re * z2.im, denom)))

div(z1, z2) ==
    LET denom == z2.im * z2.im + z2.re * z2.re
    IN  IF denom = 0 THEN Throw("DivisionByZero")
        ELSE Ok(Complex(Quot(z1.re * z2.re + z1.im * z2.im, denom),
                        Quot(z2.re * z1.im - z1.re * z2.im, denom)))

(***************************************************************************)
(* The arguments a call is drawn from.                                     *)
(***************************************************************************)
RECURSIVE Prod(_)
Prod(s) == IF s = <<>> THEN 1 ELSE Head(s) * Prod(Tail(s))

\* size tuples: every entry >= 1
SizeTuples == SeqsUpTo(1..MaxSize, MaxDims)
\* coordinate tuples, valid or not
CoordTuples == SeqsUpTo(-1..MaxSize, MaxDims)
\* integer arrays, permutations or not
IntArrays == SeqsUpTo(-1..(MaxN + 1), MaxLen)
ComplexValues == [re : -MaxC..MaxC, im : -MaxC..MaxC]

ArgsCoordsFromIndex ==
    UNION {[index : (-IndexWraps * Prod(sz))..(IndexWraps * Prod(sz)), sizes : {sz}] :
           sz \in SizeTuples}
ArgsCoordsSizes == [coords : CoordTuples, sizes : SizeTuples]
\* nGiven = FALSE: the call leaves n out and it defaults to array.length
ArgsIsPermutation ==
    [array : IntArrays, nGiven : {TRUE}, n : 0..MaxN]
        \cup [array : IntArrays, nGiven : {FALSE}, n : {0}]
ArgsIndicesComplement == [indices : IntArrays, n : 0..MaxN]
\* index tuples of at most MaxJoin axes in all, and one coordinate for each
IndexPairs ==
    {p \in SeqsUpTo(0..(MaxJoin - 1), MaxJoin) \X SeqsUpTo(0..(MaxJoin - 1), MaxJoin) :
        Len(p[1]) + Len(p[2]) <= MaxJoin}
ArgsJoin ==
    UNION {[coordIndices : {p[1]}, complementIndices : {p[2]},
            coordGroup : [1..Len(p[2]) -> 0..MaxCoord],
            coordContraction : [1..Len(p[1]) -> 0..MaxCoord]] : p \in IndexPairs}
ArgsComplex == [z1 : ComplexValues, z2 : ComplexValues]

(***************************************************************************)
(* The state machine: one call of one function.                            *)
(*   pc     "call" before the function runs, "done" after                  *)
(*   op     the function called                                            *)
(*   args   the arguments as passed                                        *)
(*   after  the argument objects when the call has ended                   *)
(*   ret    what the call returned or threw                                *)
(***************************************************************************)
Init ==
    /\ pc = "call"
    /\ ret = Pending
    /\ \/ op = "coordsFromIndex" /\ args \in ArgsCoordsFromIndex
       \/ op = "coordsToIndex" /\ args \in ArgsCoordsSizes
       \/ op = "checkCoordsSizesCompability" /\ args \in ArgsCoordsSizes
       \/ op = "isPermutation" /\ args \in ArgsIsPermutation
       \/ op = "indicesComplement" /\ args \in ArgsIndicesComplement
       \/ op = "joinCoordsFunc" /\ args \in ArgsJoin
       \/ op \in {"mul", "mulGauss", "div"} /\ args \in ArgsComplex
    /\ after = args

\* No function of the model writes to an argument: the tuples are copied
\* ([...sizes], [...coords]) before they are reversed, the complex operands
\* are only read.  So every call ends with after = args.
Return(r) ==
    /\ pc' = "done"
    /\ ret' = r
    /\ after' = args
    /\ UNCHANGED <<op, args>>

CallCoordsFromIndex ==
    /\ pc = "call" /\ op = "coordsFromIndex"
    /\ Return(Ok(coordsFromIndex(args.index, args.sizes)))

CallCoordsToIndex ==
    /\ pc = "call" /\ op = "coordsToIndex"
    /\ Return(coordsToIndex(args.coords, args.sizes))

CallCheckCoordsSizesCompability ==
    /\ pc = "call" /\ op = "checkCoordsSizesCompability"
    /\ Return(checkCoordsSizesCompability(args.coords, args.sizes))

CallIsPermutation ==
    /\ pc = "call" /\ op = "isPermutation"
    /\ LET n == IF args.nGiven THEN args.n ELSE Len(args.array)
       IN  Return(Ok(isPermutation(args.array, n)))

CallIndicesComplement ==
    /\ pc = "call" /\ op = "indicesComplement"
    /\ Return(indicesComplement(args.indices, args.n))

CallJoinCoordsFunc ==
    /\ pc = "call" /\ op = "joinCoordsFunc"
    /\ Return(Ok(joinCoordsFunc(args.coordIndices, args.complementIndices,
                                args.coordGroup, args.coordContraction)))

CallMul ==
    /\ pc = "call" /\ op = "mul"
    /\ Return(Ok(mul(args.z1, args.z2)))

CallMulGauss ==
    /\ pc = "call" /\ op = "mulGauss"
    /\ Return(Ok(mulGauss(args.z1, args.z2)))

CallDiv ==
    /\ pc = "call" /\ op = "div"
    /\ Return(div(args.z1, args.z2))

Next ==
    \/ CallCoordsFromIndex
    \/ CallCoordsToIndex
    \/ CallCheckCoordsSizesCompability
    \/ CallIsPermutation
    \/ CallIndicesComplement
    \/ CallJoinCoordsFunc
    \/ CallMul
    \/ CallMulGauss
    \/ CallDiv

Spec == Init /\ [][Next]_vars

\* the call of function f has ended
Done(f) == pc = "done" /\ op = f

(***************************************************************************)
(* What the claims speak of.                                               *)
(***************************************************************************)
\* coords is valid with respect to sizes: 0 <= coords[i] < sizes[i]
ValidCoords(coords, sizes) ==
    /\ Len(coords) = Len(sizes)
    /\ \A i \in 1..Len(coords) : 0 <= coords[i] /\ coords[i] < sizes[i]

\* every valid coordinate tuple of sizes
ValidTuples(sizes) ==
    {c \in [1..Len(sizes) -> 0..(MaxSize - 1)] : ValidCoords(c, sizes)}

\* sum over i of coords[i] * product of sizes[j], j > i
RECURSIVE BigEndianSum(_, _)
BigEndianSum(coords, sizes) ==
    IF coords = <<>> THEN 0
    ELSE Head(coords) * Prod(Tail(sizes)) + BigEndianSum(Tail(coords), Tail(sizes))

\* a comes before b in lexicographic order (same length)
LexLess(a, b) ==
    \E k \in 1..Len(a) : a[k] < b[k] /\ \A j \in 1..(k - 1) : a[j] = b[j]

Values(s) == {s[i] : i \in 1..Len(s)}
NoDuplicates(s) == \A i, j \in 1..Len(s) : s[i] = s[j] => i = j
StrictlyAscending(s) == \A i \in 1..(Len(s) - 1) : s[i] < s[i + 1]

\* s holds each of 0 .. n-1 exactly once and nothing else
PermutationOf(s, n) ==
    /\ Len(s) = n
    /\ \A v \in 0..(n - 1) : Cardinality({i \in 1..Len(s) : s[i] = v}) = 1

\* the projection of the full tuple c on the axes listed in indices
Project(c, indices) == [i \in 1..Len(indices) |-> c[indices[i] + 1]]

(***************************************************************************)
(* C1                                                                      *)
(***************************************************************************)
\* C1: coordsFromIndex and coordsToIndex are mutual inverses: (a) the
\* coordinates coordsFromIndex returns for an index in [0, product(sizes))
\* are turned back into that index by coordsToIndex, and (b) the index
\* coordsToIndex returns for a valid coordinate tuple is turned back into
\* that tuple by coordsFromIndex.
C1_RoundTrip ==
    /\ (Done("coordsFromIndex") /\ 0 <= args.index /\ args.index < Prod(args.sizes))
          => coordsToIndex(ret.value, args.sizes) = Ok(args.index)
    /\ (Done("coordsToIndex") /\ ValidCoords(args.coords, args.sizes))
          => /\ ret.status = "ok"
             /\ coordsFromIndex(ret.value, args.sizes) = args.coords

C1_Witness ==
    /\ Done("coordsFromIndex")
    /\ args.index = 4 /\ args.sizes = <<2, 3>>
    /\ ret = Ok(<<1, 1>>)
    /\ coordsToIndex(ret.value, args.sizes) = Ok(4)

(***************************************************************************)
(* C2                                                                      *)
(***************************************************************************)
\* C2: the linear index is big-endian mixed radix.  For valid coords,
\* coordsToIndex returns the sum of coords[i] times the product of the later
\* sizes, and every valid tuple that is lexicographically smaller gets a
\* strictly smaller index.  For an index in range, coordsFromIndex returns
\* the valid tuple with that sum; coordsFromIndex(5, [2,3]) = [1,2].
C2_BigEndian ==
    /\ (Done("coordsToIndex") /\ ValidCoords(args.coords, args.sizes))
          => /\ ret = Ok(BigEndianSum(args.coords, args.sizes))
             /\ \A c \in ValidTuples(args.sizes) :
                   LexLess(c, args.coords)
                      => coordsToIndex(c, args.sizes).value < ret.value
    /\ (Done("coordsFromIndex") /\ 0 <= args.index /\ args.index < Prod(args.sizes))
          => /\ ValidCoords(ret.value, args.sizes)
             /\ BigEndianSum(ret.value, args.sizes) = args.index
    /\ (Done("coordsFromIndex") /\ args.index = 5 /\ args.sizes = <<2, 3>>)
          => ret = Ok(<<1, 2>>)

C2_Witness ==
    /\ Done("coordsToIndex")
    /\ args.coords = <<1, 2>> /\ args.sizes = <<2, 3>>
    /\ ret = Ok(5)

(***************************************************************************)
(* C3                                                                      *)
(***************************************************************************)
\* C3: indicesComplement(indices, n) throws NotAPermutation whenever indices
\* holds a duplicate, holds a value outside 0 .. n-1 (the value n included),
\* or has more than n elements.
C3_RejectsBadIndices ==
    (/\ Done("indicesComplement")
     /\ \/ ~NoDuplicates(args.indices)
        \/ \E v \in Values(args.indices) : v < 0 \/ v >= args.n
        \/ Len(args.indices) > args.n)
       => ret = Throw("NotAPermutation")

(***************************************************************************)
(* C4                                                                      *)
(***************************************************************************)
\* C4: for n >= 0 and duplicate-free indices with values in 0 .. n-1,
\* indicesComplement does not throw and returns, strictly ascending, exactly
\* the values of 0 .. n-1 that are not in indices, so that indices followed
\* by the result is a permutation of 0 .. n-1.
C4_Complement ==
    (/\ Done("indicesComplement")
     /\ NoDuplicates(args.indices)
     /\ Values(args.indices) \subseteq 0..(args.n - 1))
       => /\ ret.status = "ok"
          /\ StrictlyAscending(ret.value)
          /\ Values(ret.value) = (0..(args.n - 1)) \ Values(args.indices)
          /\ PermutationOf(args.indices \o ret.value, args.n)

C4_Witness ==
    /\ Done("indicesComplement")
    /\ args.indices = <<1, 3>> /\ args.n = 5
    /\ ret = Ok(<<0, 2, 4>>)

(***************************************************************************)
(* C5                                                                      *)
(***************************************************************************)
\* C5: isPermutation(array, n) returns true exactly when array has length n
\* and holds each of 0 .. n-1 once; so it returns false for an integer array
\* with a duplicate, a negative value or a value >= array.length, and for an
\* array whose length differs from a given n.
C5_IsPermutation ==
    Done("isPermutation")
       => LET n == IF args.nGiven THEN args.n ELSE Len(args.array)
          IN  /\ ret.status = "ok"
              /\ ret.value = PermutationOf(args.array, n)
              /\ (\/ ~NoDuplicates(args.array)
                  \/ \E v \in Values(args.array) : v < 0 \/ v >= Len(args.array)
                  \/ Len(args.array) # n) => ret.value = FALSE

C5_Witness ==
    /\ Done("isPermutation")
    /\ args.array = <<2, 0, 1>> /\ ~args.nGiven
    /\ ret = Ok(TRUE)

(***************************************************************************)
(* C6                                                                      *)
(***************************************************************************)
\* C6: checkCoordsSizesCompability throws exactly when coords and sizes
\* differ in length or some coords[i] is negative or >= sizes[i]; otherwise
\* it returns no value; it leaves coords and sizes as they were.
C6_CheckCoords ==
    Done("checkCoordsSizesCompability")
       => /\ ret.status = "throw" <=> ~ValidCoords(args.coords, args.sizes)
          /\ ValidCoords(args.coords, args.sizes) => ret = Ok(Undefined)
          /\ after = args

C6_Witness ==
    /\ Done("checkCoordsSizesCompability")
    /\ args.coords = <<2, 0>> /\ args.sizes = <<2, 3>>
    /\ ret.status = "throw"

(***************************************************************************)
(* C7                                                                      *)
(***************************************************************************)
\* C7: when selectedIndices followed by complementIndices is a permutation
\* of 0 .. n-1, the joined tuple has length n, holds groupCoords[i] at
\* complementIndices[i] and selectedCoords[i] at selectedIndices[i], and has
\* no slot left unassigned; and every full tuple c is reproduced by joining
\* its projections on the complement axes and on the selected axes.
C7_Join ==
    LET sel == args.coordIndices
        com == args.complementIndices
        n == Len(sel) + Len(com)
    IN  (Done("joinCoordsFunc") /\ PermutationOf(sel \o com, n))
           => /\ ret.status = "ok"
              /\ Len(ret.value) = n
              /\ \A i \in 1..Len(com) : ret.value[com[i] + 1] = Num(args.coordGroup[i])
              /\ \A i \in 1..Len(sel) : ret.value[sel[i] + 1] = Num(args.coordContraction[i])
              /\ \A k \in 1..n : ret.value[k].kind = "num"
              /\ \A c \in [1..n -> 0..MaxCoord] :
                    joinCoordsFunc(sel, com, Project(c, com), Project(c, sel))
                       = [k \in 1..n |-> Num(c[k])]

C7_Witness ==
    /\ Done("joinCoordsFunc")
    /\ args.coordIndices = <<2, 0>> /\ args.complementIndices = <<1>>
    /\ args.coordGroup = <<1>> /\ args.coordContraction = <<0, 1>>
    /\ ret = Ok(<<Num(1), Num(1), Num(0)>>)

(***************************************************************************)
(* C8                                                                      *)
(***************************************************************************)
\* C8: over integer parts, z1.mulGauss(z2) has the components of z1.mul(z2),
\* (z1.re*z2.re - z1.im*z2.im, z1.re*z2.im + z1.im*z2.re), and neither
\* operation changes z1 or z2.
C8_MulGauss ==
    LET z1 == args.z1
        z2 == args.z2
        product == Complex(z1.re * z2.re - z1.im * z2.im, z1.re * z2.im + z1.im * z2.re)
    IN  /\ Done("mulGauss")
           => ret = Ok(product) /\ ret.value = mul(z1, z2) /\ after = args
        /\ Done("mul")
           => ret = Ok(product) /\ ret.value = mulGauss(z1, z2) /\ after = args

C8_Witness ==
    /\ Done("mulGauss")
    /\ args.z1 = Complex(1, 2) /\ args.z2 = Complex(2, -1)
    /\ ret = Ok(Complex(4, 3))

(***************************************************************************)
(* C9                                                                      *)
(***************************************************************************)
\* C9: z1.div(z2) throws DivisionByZero exactly when z2.re^2 + z2.im^2 is 0,
\* with no result value; for any other divisor it returns a new value; it
\* changes neither z1 nor z2.
C9_Div ==
    Done("div")
       => LET abs2 == args.z2.re * args.z2.re + args.z2.im * args.z2.im
          IN  /\ abs2 = 0 => ret = Throw("DivisionByZero")
              /\ abs2 # 0 => /\ ret.status = "ok"
                             /\ ret.value.re.denom # 0
                             /\ ret.value.im.denom # 0
              /\ after = args

C9_Witness ==
    /\ Done("div")
    /\ args.z1 = Complex(1, 0) /\ args.z2 = Complex(0, 0)
    /\ ret = Throw("DivisionByZero")

(***************************************************************************)
(* C10                                                                     *)
(***************************************************************************)
\* C10: for an index outside [0, product(sizes)), coordsFromIndex does not
\* return a tuple that is valid with respect to sizes.
C10_NoAliasing ==
    (Done("coordsFromIndex") /\ (args.index < 0 \/ args.index >= Prod(args.sizes)))
       => ~ValidCoords(ret.value, args.sizes)

====
